---- MODULE Spec2Model ----
(***************************************************************************)
(* A model of mem-fs-editor's staged-mutation layer: the in-memory store   *)
(* of file records, the delete action (src/src/actions/delete.ts), the     *)
(* asynchronous copy (src/unnamed/part_000, copy-async) and the commit of  *)
(* a single record (exercised by src/__tests__/copy-tpl.spec.ts).          *)
(*                                                                         *)
(* Paths are sequences of segments: <<"d", "a">> is /d/a.  A pattern is a  *)
(* path with a "*" segment (one segment) or a "**" segment (globstar).     *)
(* File contents are sequences of tokens, so that appending is             *)
(* concatenation; Null is the null contents of a tombstone or of a record  *)
(* loaded for a path that is no file on disk.                              *)
(***************************************************************************)
EXTENDS Naturals, Sequences, FiniteSets, TLC

VARIABLES
  store,   \* [files: path -> record, order: sequence of paths (insertion order)]
  disk,    \* path -> [kind: "file" | "dir", contents]
  diskMode,\* path of a file on disk -> its st_mode
  tasks,   \* the suspended per-file copies of the running copyAsync call
  call,    \* the latest operation: its name, arguments and outcome
  pre,     \* store.files as it was when the latest operation started
  preDisk, \* disk as it was when the latest operation started
  prev,    \* the operation before the latest one
  nops     \* the number of operations issued so far

vars == <<store, disk, diskMode, tasks, call, pre, preDisk, prev, nops>>

\* ------------------------------------------------------------------ bounds

MaxOps == 2

MaxSteps == 3

\* ------------------------------------------------------------------ values

Null == <<"null">>

NoState == "none"
STATE_MODIFIED == "modified"
STATE_DELETED == "deleted"

File(contents, state, history) ==
  [contents |-> contents, state |-> state, history |-> history]

\* ------------------------------------------------------------------ paths

IsDynamicPattern(p) == \E i \in 1..Len(p) : p[i] \in {"*", "**"}

Dirname(p) == SubSeq(p, 1, Len(p) - 1)

IsPrefix(a, b) == Len(a) <= Len(b) /\ SubSeq(b, 1, Len(a)) = a

\* path.relative(base, p) for p below base
Relative(base, p) == SubSeq(p, Len(base) + 1, Len(p))

\* path.join(a, b)
Join(a, b) == a \o b

RECURSIVE GlobMatch(_, _)
GlobMatch(p, pat) ==
  IF pat = <<>> THEN p = <<>>
  ELSE IF Head(pat) = "**"
    THEN IF Tail(pat) = <<>>
           THEN p # <<>>
           ELSE GlobMatch(p, Tail(pat)) \/ (p # <<>> /\ GlobMatch(Tail(p), pat))
    ELSE /\ p # <<>>
         /\ (Head(pat) = "*" \/ Head(pat) = Head(p))
         /\ GlobMatch(Tail(p), Tail(pat))

\* multimatch([p], patterns).length !== 0
Multimatch(p, patterns) == \E pat \in patterns : GlobMatch(p, pat)

RECURSIVE SetToSeq(_)
SetToSeq(S) ==
  IF S = {} THEN <<>>
  ELSE LET x == CHOOSE y \in S : TRUE IN <<x>> \o SetToSeq(S \ {x})

Range(s) == {s[i] : i \in 1..Len(s)}

\* ------------------------------------------------------------------- disk

IsDiskFile(dk, p) == p \in DOMAIN dk /\ dk[p].kind = "file"

IsDiskDir(dk, p) == p \in DOMAIN dk /\ dk[p].kind = "dir"

\* globSync / globby (patterns, {ignore, absolute: true, onlyFiles: true})
GlobDisk(dk, patterns, ignore) ==
  {p \in DOMAIN dk : /\ dk[p].kind = "file"
                     /\ Multimatch(p, patterns)
                     /\ ~Multimatch(p, ignore)}

\* util.globify of one path
GlobifyOne(dk, p) ==
  IF IsDynamicPattern(p) THEN {p}
  ELSE IF p \notin DOMAIN dk THEN {p, Join(p, <<"**">>)}
  ELSE IF dk[p].kind = "file" THEN {p}
  ELSE {Join(p, <<"**">>)}

\* util.globify of an array
Globify(dk, ps) == UNION {GlobifyOne(dk, p) : p \in ps}

\* ------------------------------------------------------------------ store

ExistsInMemory(st, p) == p \in DOMAIN st.files

\* The store has the existsInMemory method (a legacy mem-fs store has not).
HasExistsInMemory(st) == ~st.legacy

\* this.store.existsInMemory?.(p)
ExistsInMemoryOpt(st, p) == HasExistsInMemory(st) /\ ExistsInMemory(st, p)

\* The record mem-fs loads for a path that is not in memory.
LoadFile(dk, p) ==
  File(IF IsDiskFile(dk, p) THEN dk[p].contents ELSE Null, NoState, <<p>>)

\* store.get(p): the store after the call (a load is cached in the store)
Loaded(st, dk, p) ==
  IF p \in DOMAIN st.files THEN st
  ELSE [st EXCEPT !.files = (p :> LoadFile(dk, p)) @@ st.files,
                  !.order = Append(st.order, p)]

\* store.add(file): a Map.set, which keeps the place of a key it holds
StoreAdd(st, p, file) ==
  [st EXCEPT !.files = (p :> file) @@ st.files,
             !.order = IF p \in DOMAIN st.files THEN st.order
                       ELSE Append(st.order, p)]

\* editor.exists(p): store.get(p).contents !== null
Exists(st, dk, p) == Loaded(st, dk, p).files[p].contents # Null

IsTombstone(f) == f.state = STATE_DELETED /\ f.contents = Null

\* ----------------------------------------------------------------- delete

DeleteFileNoNull(st, dk, p) ==
  LET s1 == Loaded(st, dk, p)
  IN  StoreAdd(s1, p, [s1.files[p] EXCEPT !.state = STATE_DELETED])

DeleteFileSkipEmpty(st, dk, p) ==
  LET s1 == Loaded(st, dk, p)
  IN  IF s1.files[p].contents = Null
        THEN StoreAdd(s1, p, [s1.files[p] EXCEPT !.state = NoState])
        ELSE StoreAdd(s1, p, [s1.files[p] EXCEPT !.state = STATE_DELETED,
                                                 !.contents = Null])

\* deleteFile(path, store)
DeleteFile(st, dk, p) ==
  LET s1 == Loaded(st, dk, p)
  IN  StoreAdd(s1, p, [s1.files[p] EXCEPT !.state = STATE_DELETED,
                                          !.contents = Null])

RECURSIVE DeleteAll(_, _, _)
DeleteAll(st, dk, ps) ==
  IF ps = <<>> THEN st
  ELSE DeleteAll(DeleteFile(st, dk, Head(ps)), dk, Tail(ps))

\* A tombstone among the input paths is expanded like a path not in memory.
NotFoundOrDeleted(st, paths) ==
  {p \in Range(paths) : ~ExistsInMemory(st, p) \/ st.files[p].contents = Null}

\* The first loop of deleteAction: the input paths the store does not settle.
NotFound(st, paths) ==
  {p \in Range(paths) :
     \/ ~ExistsInMemory(st, p)
     \/ /\ ExistsInMemory(st, p)
        /\ st.files[p].contents = Null
        /\ st.files[p].state # STATE_DELETED}

OnStoreFiles(st, paths) ==
  {p \in Range(paths) : ExistsInMemory(st, p) /\ st.files[p].contents # Null}

StoreMatchesAll(st, patterns) == st.order

\* store.each: the records whose path matches the patterns, in store order
StoreMatches(st, patterns) ==
  SelectSeq(st.order, LAMBDA p : Multimatch(p, patterns))

DeleteActionEager(st, dk, paths, ignore) ==
  DeleteAll(st, dk, SetToSeq(NotFound(st, paths) \cup OnStoreFiles(st, paths)))

DeleteAction(st, dk, paths, ignore) ==
  LET patterns == Globify(dk, NotFound(st, paths))
      files    == SetToSeq(GlobDisk(dk, patterns, ignore))
      s1       == DeleteAll(st, dk, files)
      s2       == DeleteAll(s1, dk, StoreMatches(s1, patterns))
  IN  DeleteAll(s2, dk, SetToSeq(OnStoreFiles(st, paths)))

\* ------------------------------------------------------------ write, append

\* write(path, contents): the record is fetched (and loaded), and re-added only
\* when it is not already a modified record with these contents.
Write(st, dk, p, contents) ==
  LET s1 == Loaded(st, dk, p)
      f  == s1.files[p]
  IN  IF f.state = STATE_MODIFIED /\ f.contents = contents THEN s1
      ELSE StoreAdd(s1, p, [f EXCEPT !.state = STATE_MODIFIED,
                                     !.contents = contents])

\* _write(file): the record is marked modified and added to the store
WriteFile(st, p, file) == StoreAdd(st, p, [file EXCEPT !.state = STATE_MODIFIED])

\* append(to, contents, {create: true}): the new contents after the current ones
AppendTo(st, dk, to, contents) ==
  IF ~Exists(st, dk, to) THEN Write(st, dk, to, contents)
  ELSE Write(st, dk, to, Loaded(st, dk, to).files[to].contents \o contents)

\* read(path, options): the record is fetched (and loaded); null contents give
\* options.defaults when the option is present, and an error otherwise.
Read(st, dk, p, hasDefaults, defaults) ==
  LET s1 == Loaded(st, dk, p)
      f  == s1.files[p]
  IN  IF f.contents # Null
        THEN [st |-> s1, status |-> "ok", value |-> f.contents]
      ELSE IF hasDefaults
        THEN [st |-> s1, status |-> "ok", value |-> defaults]
      ELSE [st |-> s1, status |-> "error", value |-> Null]

\* ------------------------------------------------------------- copy, single

\* vinyl: setting a record's path pushes it onto the history unless it is the
\* path the record already has.
HistoryPush(history, p) ==
  IF history # <<>> /\ history[Len(history)] = p THEN history
  ELSE Append(history, p)

\* _copySingle(from, to, options): [st: the store after it, ok: it did not throw]
CopySingle(st, dk, from, to, opts) ==
  LET s0   == Loaded(st, dk, from)
      file == s0.files[from]
  IN  IF file.contents = Null
        THEN [st |-> s0, ok |-> FALSE, error |-> "copy"]
      ELSE IF opts.append /\ ~HasExistsInMemory(s0)
        THEN [st |-> s0, ok |-> FALSE, error |-> "incompatible"]
      ELSE IF opts.append /\ ExistsInMemory(s0, to)
        THEN [st |-> AppendTo(s0, dk, to, file.contents), ok |-> TRUE,
              error |-> "none"]
        ELSE [st |-> WriteFile(s0, to, File(file.contents, STATE_MODIFIED,
                                            HistoryPush(file.history, to))),
              ok |-> TRUE, error |-> "none"]

\* options.processFile(filename): the caller's transformation of the disk file
ProcessFile(dk, from) == <<"p">> \o dk[from].contents

AfterProcessNoAppend(st, dk, t) ==
  [st |-> st, done |-> FALSE, failed |-> FALSE]

AfterProcessUnchecked(st, dk, t) ==
  IF t.append /\ ExistsInMemory(st, t.to)
    THEN [st |-> AppendTo(st, dk, t.to, t.contents), done |-> TRUE,
          failed |-> FALSE]
    ELSE [st |-> st, done |-> FALSE, failed |-> FALSE]

\* _copySingleAsync resumed after `await applyProcessingFileFunc`: with append
\* it throws on a store without existsInMemory, and with the destination in
\* memory it appends and is done; else it awaits stat.
AfterProcess(st, dk, t) ==
  IF t.append /\ ~HasExistsInMemory(st)
    THEN [st |-> st, done |-> TRUE, failed |-> TRUE]
  ELSE IF t.append /\ ExistsInMemory(st, t.to)
    THEN [st |-> AppendTo(st, dk, t.to, t.contents), done |-> TRUE,
          failed |-> FALSE]
    ELSE [st |-> st, done |-> FALSE, failed |-> FALSE]

\* _copySingleAsync resumed after `await fsPromises.stat(from)`: the new record
AfterStat(st, t) ==
  WriteFile(st, t.to, File(t.contents, STATE_MODIFIED,
                           HistoryPush(<<t.from>>, t.to)))

\* ---------------------------------------------------------- copy, resolution

RECURSIVE CommonPrefix(_, _)
CommonPrefix(a, b) ==
  IF a = <<>> \/ b = <<>> \/ Head(a) # Head(b) THEN <<>>
  ELSE <<Head(a)>> \o CommonPrefix(Tail(a), Tail(b))

RECURSIVE StaticPrefix(_)
StaticPrefix(p) ==
  IF p = <<>> \/ Head(p) \in {"*", "**"} THEN <<>>
  ELSE <<Head(p)>> \o StaticPrefix(Tail(p))

\* util.getCommonPath of one path
CommonPathOne(dk, p) ==
  IF IsDynamicPattern(p) THEN StaticPrefix(p)
  ELSE IF IsDiskDir(dk, p) THEN p
  ELSE Dirname(p)

RECURSIVE CommonDir(_, _)
CommonDir(dk, ps) ==
  IF Len(ps) = 1 THEN CommonPathOne(dk, ps[1])
  ELSE CommonPrefix(CommonPathOne(dk, Head(ps)), CommonDir(dk, Tail(ps)))

\* util.getCommonPath(from)
GetCommonPath(dk, from) == CommonDir(dk, from)

\* util.resolveGlobOptions({noGlob: false, ...}).preferFiles
PreferFiles(from, opts) ==
  /\ ~\E i \in 1..Len(from) : IsDynamicPattern(from[i])
  /\ opts.ignore = {}

\* copyAsync lines 63-75: a string that is an existing file is copied at once
EarlyStore(st, from, isArray) ==
  ~isArray /\ ExistsInMemoryOpt(st, from[1]) /\ st.files[from[1]].contents # Null

EarlyDisk(st, dk, from, isArray) ==
  ~isArray /\ ~EarlyStore(st, from, isArray) /\ IsDiskFile(dk, from[1])

\* copyAsync lines 89-97
GlobResolved(st, from) == SelectSeq(from, LAMBDA p : ~ExistsInMemoryOpt(st, p))

LiteralStoreFiles(st, from) == SelectSeq(from, LAMBDA p : ExistsInMemoryOpt(st, p))

\* copyAsync line 101
CopyPatterns(st, dk, from) == Globify(dk, Range(GlobResolved(st, from)))

\* copyAsync lines 99-102
DiskFiles(st, dk, from, opts) ==
  IF GlobResolved(st, from) = <<>> THEN <<>>
  ELSE SetToSeq(GlobDisk(dk, CopyPatterns(st, dk, from), opts.ignore))

\* copyAsync lines 103-113: the store scan
VirtualMatches(st, dk, from, opts) ==
  IF GlobResolved(st, from) = <<>> THEN <<>>
  ELSE SelectSeq(st.order,
         LAMBDA p : /\ p \notin Range(DiskFiles(st, dk, from, opts))
                    /\ ~IsDynamicPattern(p)
                    /\ Multimatch(p, CopyPatterns(st, dk, from)))

\* copyAsync lines 86-114: storeFiles when the sanity check is reached
StoreFiles(st, dk, from, opts) ==
  LiteralStoreFiles(st, from) \o VirtualMatches(st, dk, from, opts)

\* copyAsync line 123
TreatToAsDir(st, from, isArray, opts) ==
  isArray \/ ~PreferFiles(from, opts) \/ GlobResolved(st, from) # <<>>

\* options.processDestinationPath of the caller: path.replace(/.ejs$/, ''),
\* where the file named b stands for the template a.ejs of the file named a,
\* and the name r for the template v.ejs of the file named v.
ProcessDestinationPath(opts, p) ==
  IF opts.processDestinationPath /\ p # <<>> /\ p[Len(p)] = "b"
    THEN [p EXCEPT ![Len(p)] = "a"]
  ELSE IF opts.processDestinationPath /\ p # <<>> /\ p[Len(p)] = "r"
    THEN [p EXCEPT ![Len(p)] = "v"]
    ELSE p

\* The path is rendered before processDestinationPath is applied.
GenerateDestinationRendered(dk, from, to, asDir, opts, file) ==
  IF asDir
    THEN ProcessDestinationPath(opts,
           [i \in 1..Len(Join(to, Relative(GetCommonPath(dk, from), file))) |->
              IF opts.context
                 /\ Join(to, Relative(GetCommonPath(dk, from), file))[i] = "t"
                THEN "r"
                ELSE Join(to, Relative(GetCommonPath(dk, from), file))[i]])
    ELSE to

GenerateDestinationJoined(dk, from, to, asDir, opts, file) ==
  ProcessDestinationPath(opts, Join(to, Relative(GetCommonPath(dk, from), file)))

\* copyAsync lines 124-136: generateDestination
GenerateDestination(dk, from, to, asDir, opts, file) ==
  IF asDir
    THEN ProcessDestinationPath(opts, Join(to, Relative(GetCommonPath(dk, from), file)))
    ELSE to

\* renderFilepath(filepath, context): with a context the path is rendered as a
\* template; the segment t is the placeholder <%= name %> and the context
\* gives name = r.
RenderFilepath(p, context) ==
  IF ~context THEN p
  ELSE [i \in 1..Len(p) |-> IF p[i] = "t" THEN "r" ELSE p[i]]

\* -------------------------------------------------------------- copy, batch

\* One suspended _copySingleAsync: pc is the await it is suspended at.
Task(from, to, contents, opts) ==
  [from |-> from, to |-> to, contents |-> contents, append |-> opts.append,
   pc |-> "process"]

\* copyAsync lines 139-141: _copySingleAsync is called for each disk file in
\* turn and runs to its first await; without processFile it is _copySingle,
\* and a throw rejects that file's promise only.
RECURSIVE StartDiskCopies(_, _, _, _, _, _, _)
StartDiskCopies(acc, dk, from, to, asDir, opts, files) ==
  IF files = <<>> THEN acc
  ELSE
    LET f    == Head(files)
        dest == RenderFilepath(GenerateDestination(dk, from, to, asDir, opts, f),
                               opts.context)
        r    == CopySingle(acc.st, dk, f, dest, opts)
        next == IF opts.processFile
                  THEN [acc EXCEPT !.tasks = Append(@, Task(f, dest, ProcessFile(dk, f), opts)),
                                   !.started = @ + 1]
                  ELSE [acc EXCEPT !.st = r.st, !.failed = @ \/ ~r.ok,
                                   !.error = IF @ = "none" THEN r.error ELSE @,
                                   !.started = @ + 1]
    IN  StartDiskCopies(next, dk, from, to, asDir, opts, Tail(files))

\* copyAsync lines 142-145: _copySingle is called inside the map callback, so a
\* throw leaves the map and the later store files are not copied.
RECURSIVE StartStoreCopies(_, _, _, _, _, _, _)
StartStoreCopies(acc, dk, from, to, asDir, opts, files) ==
  IF files = <<>> \/ acc.thrown THEN acc
  ELSE
    LET f    == Head(files)
        dest == RenderFilepath(GenerateDestination(dk, from, to, asDir, opts, f),
                               opts.context)
        r    == CopySingle(acc.st, dk, f, dest, opts)
        next == [acc EXCEPT !.st = r.st, !.thrown = ~r.ok,
                            !.error = IF ~r.ok THEN r.error ELSE @,
                            !.started = @ + 1]
    IN  StartStoreCopies(next, dk, from, to, asDir, opts, Tail(files))

Outcome(st, tks, status, error, diskFiles, storeFiles, asDir, early, started) ==
  [st |-> st, tasks |-> tks, status |-> status, error |-> error,
   diskFiles |-> diskFiles, storeFiles |-> storeFiles, asDir |-> asDir,
   early |-> early, started |-> started]

Finished(acc, diskFiles, storeFiles, asDir, early) ==
  Outcome(acc.st, acc.tasks,
          IF acc.failed \/ acc.thrown THEN "error"
          ELSE IF acc.tasks = <<>> THEN "ok" ELSE "running",
          IF acc.failed \/ acc.thrown THEN acc.error ELSE "none",
          diskFiles, storeFiles, asDir, early, acc.started)

Acc(st) == [st |-> st, tasks |-> <<>>, failed |-> FALSE, thrown |-> FALSE,
            error |-> "none", started |-> 0]

SanityNone(opts, diskFiles, storeFiles) == TRUE

\* copyAsync lines 116-120: the sanity check
SanityOk(opts, diskFiles, storeFiles) ==
  opts.ignoreNoMatch \/ Len(diskFiles) > 0 \/ Len(storeFiles) > 0

DestinationUnchecked(st, dk, to) == "none"

\* copyAsync lines 126-129: the destination of a multi-file copy must not be
\* an existing file; statSync throws for a file only the store holds.
DestinationError(st, dk, to) ==
  IF ~Exists(st, dk, to) THEN "none"
  ELSE IF to \notin DOMAIN dk THEN "stat"
  ELSE IF dk[to].kind = "dir" THEN "none"
  ELSE "notdir"

\* copyAsync(from, to, options) up to the first await of its per-file copies
CopyAsync(st, dk, from, isArray, to, opts) ==
  IF EarlyStore(st, from, isArray) THEN
    Finished(StartStoreCopies(Acc(st), dk, from, to, FALSE, opts, <<from[1]>>),
             <<>>, <<from[1]>>, FALSE, TRUE)
  ELSE IF EarlyDisk(st, dk, from, isArray) THEN
    Finished(StartDiskCopies(Acc(st), dk, from, to, FALSE, opts, <<from[1]>>),
             <<from[1]>>, <<>>, FALSE, TRUE)
  ELSE
    LET diskFiles  == DiskFiles(st, dk, from, opts)
        storeFiles == StoreFiles(st, dk, from, opts)
        asDir      == TreatToAsDir(st, from, isArray, opts)
        s1         == IF asDir THEN Loaded(st, dk, to) ELSE st
        destErr    == IF asDir THEN DestinationError(st, dk, to) ELSE "none"
        a1         == StartDiskCopies(Acc(s1), dk, from, to, asDir, opts, diskFiles)
        a2         == StartStoreCopies(a1, dk, from, to, asDir, opts, storeFiles)
    IN  IF ~SanityOk(opts, diskFiles, storeFiles)
          THEN Outcome(st, <<>>, "error", "nosource", diskFiles, storeFiles,
                       FALSE, FALSE, 0)
        ELSE IF destErr # "none"
          THEN Outcome(s1, <<>>, "error", destErr, diskFiles, storeFiles,
                       asDir, FALSE, 0)
        ELSE Finished(a2, diskFiles, storeFiles, asDir, FALSE)

\* ----------------------------------------------------------------- commit

\* The file-type bits of a regular file's st_mode (S_IFREG, 0o100000).
S_IFREG == 32768

\* mode & 0o777 is mode % PermMask
PermMask == 512

\* The permission bits of a file created without a mode (0o644).
DefaultMode == 420

\* 0o600
Mode600 == 384

\* 0o660
Mode660 == 432

PermBits(mode) == mode % PermMask

\* The record carries stat.mode.
HasMode(file) == "mode" \in DOMAIN file

Ancestors(p) == {SubSeq(p, 1, k) : k \in 1..(Len(p) - 1)}

\* fs.mkdir(dirname, {recursive: true})
MkdirP(dk, p) ==
  [a \in Ancestors(p) \ DOMAIN dk |-> [kind |-> "dir", contents |-> Null]] @@ dk

WriteFailsDirOnly(dk, p) == IsDiskDir(dk, p)

\* The write of a modified record fails where a directory has the record's
\* path, or a file the path of one of its parent directories.
WriteFails(dk, p) ==
  IsDiskDir(dk, p) \/ \E a \in Ancestors(p) : IsDiskFile(dk, a)

DiskWrite(dk, p, contents) ==
  (p :> [kind |-> "file", contents |-> contents]) @@ MkdirP(dk, p)

\* fs.rm(path, {recursive: true}); an absent path is no failure
DiskRemove(dk, p) ==
  [q \in {r \in DOMAIN dk : ~IsPrefix(p, r)} |-> dk[q]]

PendingAlways(file) == TRUE

\* state.isFilePending
IsFilePending(file) == file.state \in {STATE_MODIFIED, STATE_DELETED}

DiskRemoveKeep(dk, p) == dk

CommitRemove(dk, p) == DiskRemove(dk, p)

ClearKeepState(file) == file

\* state.clearFileState
ClearFileState(file) == [file EXCEPT !.state = NoState]

\* commitFileAsync(file); held: the store holds this very record at file's path
CommitFileAsync(st, dk, p, file, held) ==
  LET added == IF held THEN st ELSE StoreAdd(st, p, file)
      done  == StoreAdd(added, p, ClearFileState(file))
  IN  IF ~IsFilePending(file)
        THEN [st |-> st, dk |-> dk, ret |-> FALSE, status |-> "ok", added |-> FALSE]
      ELSE IF file.state = STATE_MODIFIED
        THEN IF WriteFails(dk, p)
               THEN [st |-> added, dk |-> dk, ret |-> FALSE, status |-> "error",
                     added |-> ~held]
               ELSE [st |-> done, dk |-> DiskWrite(dk, p, file.contents),
                     ret |-> TRUE, status |-> "ok", added |-> ~held]
      ELSE [st |-> done, dk |-> CommitRemove(dk, p), ret |-> TRUE,
            status |-> "ok", added |-> ~held]

\* The st_mode of the files on disk after the contents of a modified record
\* are written at p: a file that was there keeps its mode.
ModeAfterWrite(dm, dk, p) ==
  IF IsDiskFile(dk, p) THEN dm ELSE (p :> S_IFREG + DefaultMode) @@ dm

NeedsChmodUnmasked(dm, p, file) == HasMode(file) /\ dm[p] # file.mode

\* The record's mode is applied only if the permission bits on disk differ.
NeedsChmod(dm, p, file) ==
  HasMode(file) /\ PermBits(dm[p]) # PermBits(file.mode)

\* fs.chmod(path, mode)
Chmod(dm, p, mode) == [dm EXCEPT ![p] = S_IFREG + PermBits(mode)]

\* commitFileAsync(file), the modes: [dm: the modes after it, chmod: it
\* changed the mode of the file]
CommitModes(dm, dk, p, file) ==
  IF ~IsFilePending(file) THEN [dm |-> dm, chmod |-> FALSE]
  ELSE IF file.state = STATE_MODIFIED
    THEN IF WriteFails(dk, p) THEN [dm |-> dm, chmod |-> FALSE]
         ELSE LET w == ModeAfterWrite(dm, dk, p)
              IN  IF NeedsChmod(w, p, file)
                    THEN [dm |-> Chmod(w, p, file.mode), chmod |-> TRUE]
                    ELSE [dm |-> w, chmod |-> FALSE]
  ELSE [dm |-> [q \in {r \in DOMAIN dm : ~IsPrefix(p, r)} |-> dm[q]],
        chmod |-> FALSE]

\* ------------------------------------------------------------------ inputs

dA == <<"d", "a">>
dB == <<"d", "b">>
dV == <<"d", "v">>
dAll == <<"d", "*">>
dDir == <<"d">>
eDir == <<"e">>
eNew == <<"e", "n">>
xNone == <<"x">>
xAll == <<"x", "*">>

\* The files on disk when the editor is created.
Disk0 ==
  (dDir :> [kind |-> "dir", contents |-> Null]) @@
  (dA :> [kind |-> "file", contents |-> <<"A">>]) @@
  (dB :> [kind |-> "file", contents |-> <<"B">>])

EmptyStore == [files |-> <<>>, order |-> <<>>, legacy |-> FALSE]

\* A mem-fs store that has no existsInMemory method.
LegacyStore == [EmptyStore EXCEPT !.legacy = TRUE]

NoOpts ==
  [append |-> FALSE, processFile |-> FALSE, ignoreNoMatch |-> FALSE, ignore |-> {},
   processDestinationPath |-> FALSE, context |-> FALSE]

WriteInputs == {dA, dV}

DeleteInputs ==
  {[paths |-> ps, ignore |-> {}, ignoreNoMatch |-> FALSE] :
     ps \in {<<dA>>, <<dV>>, <<dDir>>, <<dAll>>, <<dA, dV>>, <<xNone>>,
             <<xAll>>, <<xNone, xAll>>}}
  \cup {[paths |-> <<dAll>>, ignore |-> {dB}, ignoreNoMatch |-> FALSE],
        [paths |-> <<xAll>>, ignore |-> {}, ignoreNoMatch |-> TRUE]}

CopySources ==
  {[from |-> <<p>>, isArray |-> FALSE] : p \in {dA, dV, dAll, dDir, eDir, xNone}}
  \cup {[from |-> ps, isArray |-> TRUE] : ps \in {<<dA, dB>>, <<dV, dAll>>}}

CopyOptions ==
  {[NoOpts EXCEPT !.append = a, !.processFile = f] : a, f \in BOOLEAN}

CopyInputs ==
  {[from |-> s.from, isArray |-> s.isArray, to |-> eDir, opts |-> o] :
     s \in CopySources, o \in CopyOptions}
  \cup {[from |-> s.from, isArray |-> s.isArray, to |-> dB, opts |-> o] :
     s \in {c \in CopySources : c.from \in {<<dA>>, <<dAll>>, <<dA, dB>>, <<eDir>>, <<xNone>>}},
     o \in {c \in CopyOptions : ~c.append}}
  \cup {[from |-> <<p>>, isArray |-> FALSE, to |-> t,
         opts |-> [NoOpts EXCEPT !.ignoreNoMatch = TRUE]] :
     p \in {dAll, xNone}, t \in {eDir, dB}}
  \cup {[from |-> s.from, isArray |-> s.isArray, to |-> eDir,
         opts |-> [NoOpts EXCEPT !.ignore = {dB}]] :
     s \in {c \in CopySources : c.from \in {<<dAll>>, <<dA, dB>>}}}
  \cup {[from |-> s.from, isArray |-> s.isArray, to |-> eDir,
         opts |-> [NoOpts EXCEPT !.ignore = {dV}]] :
     s \in {c \in CopySources : c.from \in {<<dAll>>, <<dV, dAll>>}}}

tDir == <<"t">>

\* Calls of copyAsync with processDestinationPath, or with a context and a
\* destination that holds a placeholder.
HookSources == CopySources \cup {[from |-> <<dB>>, isArray |-> FALSE]}

HookInputs ==
  {[from |-> s.from, isArray |-> s.isArray, to |-> eDir,
    opts |-> [NoOpts EXCEPT !.processDestinationPath = TRUE, !.processFile = f]] :
     s \in HookSources, f \in BOOLEAN}
  \cup {[from |-> s.from, isArray |-> s.isArray, to |-> tDir,
         opts |-> [NoOpts EXCEPT !.context = TRUE, !.processFile = f]] :
     s \in {c \in HookSources : c.from \in {<<dB>>, <<dV>>, <<dAll>>}},
     f \in BOOLEAN}

ReadInputs == {dA, dV, xNone}

\* options of read: no defaults, defaults: 'foo', defaults: '', defaults: null
ReadOptions ==
  {[hasDefaults |-> FALSE, defaults |-> Null]}
  \cup {[hasDefaults |-> TRUE, defaults |-> d] : d \in {<<"f">>, <<>>, Null}}

NewFileStates == {STATE_MODIFIED, STATE_DELETED, NoState}

dAn == <<"d", "a", "n">>

\* newFile with stat: {mode}
ModeFile(mode) ==
  [contents |-> <<"n">>, state |-> STATE_MODIFIED, history |-> <<eNew>>,
   mode |-> mode]

\* Modified records made by the caller: /e/n with a mode, a record at the
\* directory /d, and a record below the file /d/a.
CommitInputs ==
  {[path |-> eNew, file |-> ModeFile(m)] : m \in {Mode600, Mode660}}
  \cup {[path |-> p, file |-> File(<<"n">>, STATE_MODIFIED, <<p>>)] :
          p \in {dDir, dAn}}

\* ----------------------------------------------------------------- actions

BaseCall ==
  [op |-> "init", paths |-> <<>>, isArray |-> FALSE, to |-> <<>>,
   opts |-> NoOpts, contents |-> <<>>, file |-> File(Null, NoState, <<>>),
   status |-> "ok", error |-> "none", diskFiles |-> <<>>, storeFiles |-> <<>>,
   asDir |-> FALSE, early |-> FALSE, started |-> 0, ret |-> FALSE,
   held |-> FALSE, added |-> FALSE, chmod |-> FALSE,
   hasDefaults |-> FALSE, value |-> Null]

InitWith(st) ==
  /\ store = st
  /\ disk = Disk0
  /\ diskMode = [p \in {q \in DOMAIN Disk0 : Disk0[q].kind = "file"} |->
                   S_IFREG + DefaultMode]
  /\ tasks = <<>>
  /\ call = BaseCall
  /\ pre = EmptyStore.files
  /\ preDisk = Disk0
  /\ prev = BaseCall
  /\ nops = 0

Init == InitWith(EmptyStore)

\* The editor is created over a legacy store.
InitLegacy == InitWith(LegacyStore)

\* An operation is issued: the caller has awaited the one before it.
Issue(bound, c) ==
  /\ tasks = <<>>
  /\ nops < bound
  /\ nops' = nops + 1
  /\ pre' = store.files
  /\ preDisk' = disk
  /\ prev' = call
  /\ call' = c

DoWrite(bound) ==
  \E p \in WriteInputs :
    /\ Issue(bound, [BaseCall EXCEPT !.op = "write", !.paths = <<p>>,
                                     !.contents = <<"w">>])
    /\ store' = Write(store, disk, p, <<"w">>)
    /\ UNCHANGED <<disk, diskMode, tasks>>

DoRead(bound) ==
  \E p \in ReadInputs, o \in ReadOptions :
    LET r == Read(store, disk, p, o.hasDefaults, o.defaults)
    IN  /\ Issue(bound, [BaseCall EXCEPT !.op = "read", !.paths = <<p>>,
                           !.hasDefaults = o.hasDefaults,
                           !.contents = o.defaults,
                           !.status = r.status, !.value = r.value])
        /\ store' = r.st
        /\ UNCHANGED <<disk, diskMode, tasks>>

DoDelete(bound) ==
  \E d \in DeleteInputs :
    /\ Issue(bound, [BaseCall EXCEPT !.op = "delete", !.paths = d.paths,
                                     !.isArray = Len(d.paths) > 1,
                                     !.opts = [NoOpts EXCEPT !.ignore = d.ignore,
                                         !.ignoreNoMatch = d.ignoreNoMatch]])
    /\ store' = DeleteAction(store, disk, d.paths, d.ignore)
    /\ UNCHANGED <<disk, diskMode, tasks>>

\* copyAsync(c.from, c.to, c.opts) runs up to the first await of its copies
Copied(bound, c) ==
  LET r == CopyAsync(store, disk, c.from, c.isArray, c.to, c.opts)
  IN  /\ Issue(bound, [BaseCall EXCEPT !.op = "copy", !.paths = c.from,
                         !.isArray = c.isArray, !.to = c.to, !.opts = c.opts,
                         !.status = r.status, !.error = r.error,
                         !.diskFiles = r.diskFiles, !.storeFiles = r.storeFiles,
                         !.asDir = r.asDir, !.early = r.early,
                         !.started = r.started])
      /\ store' = r.st
      /\ tasks' = r.tasks
      /\ UNCHANGED <<disk, diskMode>>

DoCopy(bound) == \E c \in CopyInputs : Copied(bound, c)

\* copyAsync with processDestinationPath or with a context
DoCopyHooks(bound) == \E c \in HookInputs : Copied(bound, c)

RemoveAt(s, i) == SubSeq(s, 1, i - 1) \o SubSeq(s, i + 1, Len(s))

\* Promise.all rejects with the first copy that fails, and resolves when
\* every copy has.
Settle(tks, failed) ==
  call' = IF failed /\ call.status = "running"
            THEN [call EXCEPT !.status = "error", !.error = "incompatible"]
          ELSE IF tks = <<>> /\ call.status = "running"
            THEN [call EXCEPT !.status = "ok"] ELSE call

\* A suspended copy resumes after `await applyProcessingFileFunc`.
ResumeProcess ==
  \E i \in 1..Len(tasks) :
    LET r == AfterProcess(store, disk, tasks[i])
    IN  /\ tasks[i].pc = "process"
        /\ store' = r.st
        /\ tasks' = IF r.done THEN RemoveAt(tasks, i)
                    ELSE [tasks EXCEPT ![i].pc = "stat"]
        /\ Settle(tasks', r.failed)
        /\ UNCHANGED <<disk, diskMode, pre, preDisk, prev, nops>>

\* A suspended copy resumes after `await fsPromises.stat(from)`.
ResumeStat ==
  \E i \in 1..Len(tasks) :
    /\ tasks[i].pc = "stat"
    /\ store' = AfterStat(store, tasks[i])
    /\ tasks' = RemoveAt(tasks, i)
    /\ Settle(tasks', FALSE)
    /\ UNCHANGED <<disk, diskMode, pre, preDisk, prev, nops>>

Committed(bound, p, file, held) ==
  LET r == CommitFileAsync(store, disk, p, file, held)
      m == CommitModes(diskMode, disk, p, file)
  IN  /\ Issue(bound, [BaseCall EXCEPT !.op = "commit", !.paths = <<p>>,
                         !.file = file, !.held = held, !.status = r.status,
                         !.ret = r.ret, !.added = r.added,
                         !.chmod = m.chmod])
      /\ store' = r.st
      /\ disk' = r.dk
      /\ diskMode' = m.dm
      /\ UNCHANGED tasks

\* commitFileAsync(store.get(p)) of a record the store holds
DoCommit(bound) ==
  \E p \in DOMAIN store.files : Committed(bound, p, store.files[p], TRUE)

\* commitFileAsync(file) of a record made by the caller
DoCommitNew(bound) ==
  \E s \in NewFileStates :
    Committed(bound, eNew, File(<<"n">>, s, <<eNew>>), FALSE)

\* commitFileAsync({...newFile, stat: {mode}}), or of a record whose path
\* cannot be written
DoCommitFile(bound) ==
  \E c \in CommitInputs : Committed(bound, c.path, c.file, FALSE)

Next ==
  \/ DoWrite(MaxOps)
  \/ DoDelete(MaxOps)
  \/ DoCopy(MaxOps)
  \/ ResumeProcess
  \/ ResumeStat
  \/ DoCommit(MaxOps)
  \/ DoCommitNew(MaxOps)

Spec == Init /\ [][Next]_vars

NextCommit ==
  \/ DoWrite(MaxSteps)
  \/ DoDelete(MaxSteps)
  \/ DoCommit(MaxSteps)
  \/ DoCommitNew(MaxSteps)
  \/ DoCommitFile(MaxSteps)

SpecCommit == Init /\ [][NextCommit]_vars

NextHooks ==
  \/ DoWrite(MaxOps)
  \/ DoDelete(MaxOps)
  \/ DoCopyHooks(MaxOps)
  \/ ResumeProcess
  \/ ResumeStat

SpecHooks == Init /\ [][NextHooks]_vars

NextLegacy ==
  \/ DoWrite(MaxOps)
  \/ DoCopy(MaxOps)
  \/ ResumeProcess
  \/ ResumeStat

SpecLegacy == InitLegacy /\ [][NextLegacy]_vars

NextRead ==
  \/ DoWrite(MaxSteps)
  \/ DoDelete(MaxSteps)
  \/ DoRead(MaxSteps)

SpecRead == Init /\ [][NextRead]_vars

ddDir == <<"d", "d">>
ddA == <<"d", "d", "a">>
dDeep == <<"d", "**">>

\* Calls of copyAsync that copy the directory /d, or files of it, into /e or
\* into /d/d, which is below the sources.
NestedInputs ==
  {[from |-> f.from, isArray |-> f.isArray, to |-> t, opts |-> o] :
     f \in {[from |-> <<dDeep>>, isArray |-> FALSE],
            [from |-> <<dAll>>, isArray |-> FALSE],
            [from |-> <<dA, dB>>, isArray |-> TRUE]},
     t \in {ddDir, eDir}, o \in CopyOptions}

\* write("/d/d/a", "w"): a file only the store holds, in a directory below /d
DoWriteNested(bound) ==
  /\ Issue(bound, [BaseCall EXCEPT !.op = "write", !.paths = <<ddA>>,
                                   !.contents = <<"w">>])
  /\ store' = Write(store, disk, ddA, <<"w">>)
  /\ UNCHANGED <<disk, diskMode, tasks>>

\* copyAsync of a directory tree
DoCopyNested(bound) == \E c \in NestedInputs : Copied(bound, c)

NextNested ==
  \/ DoWriteNested(MaxOps)
  \/ DoCopyNested(MaxOps)
  \/ ResumeProcess
  \/ ResumeStat

SpecNested == Init /\ [][NextNested]_vars

dT == <<"d", "t">>

\* Directory-mode calls of copyAsync with and without processDestinationPath
\* and a context.
TemplateInputs ==
  {[from |-> f.from, isArray |-> f.isArray, to |-> t,
    opts |-> [NoOpts EXCEPT !.processDestinationPath = h, !.context = c,
                            !.processFile = pf]] :
     f \in {[from |-> <<dAll>>, isArray |-> FALSE],
            [from |-> <<dA, dB>>, isArray |-> TRUE]},
     t \in {eDir, tDir}, h \in BOOLEAN, c \in BOOLEAN, pf \in BOOLEAN}

\* write("/d/<%= name %>", "w"): a file whose name is a placeholder
DoWriteTemplate(bound) ==
  /\ Issue(bound, [BaseCall EXCEPT !.op = "write", !.paths = <<dT>>,
                                   !.contents = <<"w">>])
  /\ store' = Write(store, disk, dT, <<"w">>)
  /\ UNCHANGED <<disk, diskMode, tasks>>

\* copyAsync into a directory with processDestinationPath and a context
DoCopyTemplate(bound) == \E c \in TemplateInputs : Copied(bound, c)

NextTemplate ==
  \/ DoWriteTemplate(MaxOps)
  \/ DoCopyTemplate(MaxOps)
  \/ ResumeProcess
  \/ ResumeStat

SpecTemplate == Init /\ [][NextTemplate]_vars

eA == <<"e", "a">>

\* Calls of copyAsync with processFile whose copies are suspended while the
\* caller goes on.
OverlapInputs ==
  {[from |-> <<p>>, isArray |-> FALSE, to |-> eDir,
    opts |-> [NoOpts EXCEPT !.processFile = TRUE, !.append = a]] :
     p \in {dA, dAll}, a \in BOOLEAN}

\* copyAsync with processFile that the caller does not await at once
DoCopyOverlap(bound) == \E c \in OverlapInputs : Copied(bound, c)

\* write(p, "w") by the caller while the copies of a copyAsync call that it
\* has not awaited are suspended.
DoWriteOverlapped ==
  \E p \in {eDir, eA} :
    /\ tasks # <<>>
    /\ store' = Write(store, disk, p, <<"w">>)
    /\ UNCHANGED <<disk, diskMode, tasks, call, pre, preDisk, prev, nops>>

NextOverlap ==
  \/ DoWrite(MaxOps)
  \/ DoCopyOverlap(MaxOps)
  \/ DoWriteOverlapped
  \/ ResumeProcess
  \/ ResumeStat

SpecOverlap == Init /\ [][NextOverlap]_vars

\* write("/d", "w"): a store record at the path of a directory on disk
DoWriteDir(bound) ==
  /\ Issue(bound, [BaseCall EXCEPT !.op = "write", !.paths = <<dDir>>,
                                   !.contents = <<"w">>])
  /\ store' = Write(store, disk, dDir, <<"w">>)
  /\ UNCHANGED <<disk, diskMode, tasks>>

NextDelete ==
  \/ DoWrite(MaxSteps)
  \/ DoWriteDir(MaxSteps)
  \/ DoDelete(MaxSteps)

SpecDelete == Init /\ [][NextDelete]_vars

\* ------------------------------------------------------------------ claims

\* The contents and the state of every record are those of the store `before`.
SameRecords(before, after) ==
  /\ DOMAIN after = DOMAIN before
  /\ \A p \in DOMAIN before :
       /\ after[p].contents = before[p].contents
       /\ after[p].state = before[p].state

Tombstoned(p) == p \in DOMAIN store.files /\ IsTombstone(store.files[p])

SameCall(a, b) ==
  a.op = b.op /\ a.paths = b.paths /\ a.isArray = b.isArray /\ a.to = b.to
  /\ a.opts = b.opts

\* C1: delete is idempotent: delete(p) issued right after delete(p), with the
\* same options, does not fail and leaves the contents and the state of every
\* store record as the first call left them (and loads no further record).
C1_DeleteIdempotent ==
  (call.op = "delete" /\ prev.op = "delete" /\ SameCall(call, prev)) =>
    /\ call.status = "ok"
    /\ SameRecords(pre, store.files)

\* The second of two delete("/d/*") calls has run on a store in which the first
\* one tombstoned the disk files and the virtual file of /d.
C1_Witness ==
  /\ call.op = "delete" /\ prev.op = "delete" /\ SameCall(call, prev)
  /\ call.paths = <<dAll>>
  /\ call.opts.ignore = {}
  /\ \A p \in {dA, dB, dV} : Tombstoned(p)

\* The patterns deleteAction expands: the globified inputs that are neither a
\* record with contents nor a tombstone of the store `before`.
ExpandedPatterns(before, dk, paths) ==
  Globify(dk, {p \in Range(paths) :
                 ~(p \in DOMAIN before /\ (before[p].contents # Null
                                           \/ before[p].state = STATE_DELETED))})

\* C2: after delete(paths) every resolved target is a tombstone: each input
\* path the store held with contents, each disk file of the glob expansion of
\* the not-found inputs, and each store record whose path matches them.
C2_TargetsTombstoned ==
  call.op = "delete" =>
    LET patterns == ExpandedPatterns(pre, preDisk, call.paths)
    IN  /\ \A p \in Range(call.paths) :
             (p \in DOMAIN pre /\ pre[p].contents # Null) => Tombstoned(p)
        /\ \A f \in DOMAIN preDisk :
             (/\ preDisk[f].kind = "file"
              /\ Multimatch(f, patterns)
              /\ ~Multimatch(f, call.opts.ignore)) => Tombstoned(f)
        /\ \A p \in DOMAIN store.files :
             Multimatch(p, patterns) => Tombstoned(p)

\* delete(["/d/a", "/d/v"]) with /d/v held by the store with contents and /d/a
\* only on disk: both kinds of target are tombstones afterwards.
C2_Witness ==
  /\ call.op = "delete"
  /\ call.paths = <<dA, dV>>
  /\ dV \in DOMAIN pre /\ pre[dV].contents # Null
  /\ dA \notin DOMAIN pre
  /\ Tombstoned(dA) /\ Tombstoned(dV)

\* A record the latest operation wrote: one it changed, or a new one that is
\* not the unmodified record a load leaves.
Written(p) ==
  /\ p \in DOMAIN store.files
  /\ IF p \in DOMAIN pre
       THEN \/ store.files[p].contents # pre[p].contents
            \/ store.files[p].state # pre[p].state
       ELSE \/ store.files[p].state # NoState
            \/ store.files[p].contents # LoadFile(preDisk, p).contents

NothingWritten == (\A p \in DOMAIN pre : p \in DOMAIN store.files)
                  /\ ~\E p \in DOMAIN store.files : Written(p)

\* The sources of the call match nothing: no input path is in memory, no disk
\* file and no store record matches the globified inputs.
ZeroMatches ==
  LET patterns == Globify(preDisk, Range(call.paths))
  IN  /\ \A p \in Range(call.paths) : p \notin DOMAIN pre
      /\ GlobDisk(preDisk, patterns, call.opts.ignore) = {}
      /\ ~\E q \in DOMAIN pre : ~IsDynamicPattern(q) /\ Multimatch(q, patterns)

\* C3: a copyAsync whose sources resolve to no disk file and no store file
\* fails with the no-source error unless ignoreNoMatch is set, starts no
\* per-file copy and leaves the store as it was; with ignoreNoMatch it does not
\* raise the no-source error and writes no record.
C3_NoSourceFails ==
  (call.op = "copy" /\ ZeroMatches) =>
    /\ call.diskFiles = <<>> /\ call.storeFiles = <<>>
    /\ call.started = 0
    /\ tasks = <<>>
    /\ IF call.opts.ignoreNoMatch
         THEN call.error # "nosource" /\ NothingWritten
         ELSE call.status = "error" /\ call.error = "nosource"
              /\ store.files = pre

\* copyAsync("/x", "/e") on a store that holds records: nothing is named /x.
C3_Witness ==
  /\ call.op = "copy"
  /\ call.paths = <<xNone>>
  /\ ~call.opts.ignoreNoMatch
  /\ call.error = "nosource"
  /\ pre # <<>>

ResolvesToFile(p) ==
  IsDiskFile(preDisk, p) \/ (p \in DOMAIN pre /\ pre[p].contents # Null)

MustBeDirectory ==
  \/ call.isArray
  \/ \E i \in 1..Len(call.paths) : IsDynamicPattern(call.paths[i])
  \/ ~ResolvesToFile(call.paths[1])

ToExistsNotDirectory ==
  /\ Exists([files |-> pre, order |-> <<>>], preDisk, call.to)
  /\ ~IsDiskDir(preDisk, call.to)

Below(dir, p) == IsPrefix(dir, p) /\ p # dir

Sources == call.diskFiles \o call.storeFiles

DestOf(f) ==
  RenderFilepath(GenerateDestination(preDisk, call.paths, call.to, call.asDir,
                                     call.opts, f),
                 call.opts.context)

\* Source i is the only one copied to its destination, which is no source.
SoleSource(i) ==
  /\ \A j \in 1..Len(Sources) : j # i => DestOf(Sources[j]) # DestOf(Sources[i])
  /\ DestOf(Sources[i]) \notin Range(Sources)

\* C5: a copyAsync call with a pattern copies no source twice: the disk files
\* and the store files it resolved hold no path more than once, and they are
\* the disk matches of the patterns plus the store records that match them or
\* are named literally.
C5_NoDuplicateSources ==
  (call.op = "copy" /\ ~call.early
   /\ \E i \in 1..Len(call.paths) : IsDynamicPattern(call.paths[i])) =>
    LET patterns == Globify(preDisk, {p \in Range(call.paths) : p \notin DOMAIN pre})
        onDisk   == GlobDisk(preDisk, patterns, call.opts.ignore)
    IN  /\ \A i, j \in 1..Len(Sources) : Sources[i] = Sources[j] => i = j
        /\ Range(call.diskFiles) = onDisk
        /\ Range(call.storeFiles) =
             {q \in DOMAIN pre : \/ q \in Range(call.paths)
                                 \/ /\ q \notin onDisk
                                    /\ ~IsDynamicPattern(q)
                                    /\ Multimatch(q, patterns)}

\* What a per-file copy of source f puts at its destination.
NewContents(f) ==
  IF call.opts.processFile /\ f \in Range(call.diskFiles)
    THEN ProcessFile(preDisk, f)
  ELSE IF f \in DOMAIN pre THEN pre[f].contents
  ELSE preDisk[f].contents

\* C6: a finished copy with append = true onto a destination D that the store
\* held with contents A leaves D with A followed by the new contents B, in the
\* sync path and in the processFile path; so copying twice to the same
\* destination with append yields the contents twice.
C6_AppendConcatenates ==
  (call.op = "copy" /\ call.opts.append /\ call.status = "ok") =>
    \A i \in 1..Len(Sources) :
      LET D == DestOf(Sources[i])
      IN  (SoleSource(i) /\ D \in DOMAIN pre /\ pre[D].contents # Null) =>
            /\ store.files[D].contents = pre[D].contents \o NewContents(Sources[i])
            /\ store.files[D].state = STATE_MODIFIED

\* copyAsync("/d/a", "/e", {append, processFile}) twice: /e holds the processed
\* contents of /d/a twice.
C6_Witness ==
  /\ call.op = "copy" /\ prev.op = "copy" /\ SameCall(call, prev)
  /\ call.paths = <<dA>> /\ call.to = eDir
  /\ call.opts.append /\ call.opts.processFile
  /\ call.status = "ok"
  /\ store.files[eDir].contents = <<"p", "A", "p", "A">>

SourceHistory(f) == IF f \in DOMAIN pre THEN pre[f].history ELSE <<f>>

\* C7: after a finished non-append copy of S to D the store holds a record at
\* D with state = modified whose history is S's history followed by D, in the
\* sync path and in the processFile path.
C7_HistoryChain ==
  (call.op = "copy" /\ ~call.opts.append /\ call.status = "ok") =>
    \A i \in 1..Len(Sources) :
      LET D == DestOf(Sources[i])
      IN  SoleSource(i) =>
            /\ D \in DOMAIN store.files
            /\ store.files[D].state = STATE_MODIFIED
            /\ store.files[D].history = Append(SourceHistory(Sources[i]), D)

CommitPath == call.paths[1]

\* C8: commitFileAsync of a record with no state set returns false, writes
\* nothing to disk (the file is not created) and does not change the store.
C8_UnmodifiedNotCommitted ==
  (call.op = "commit" /\ call.file.state = NoState) =>
    /\ call.status = "ok"
    /\ ~call.ret
    /\ ~call.added
    /\ disk = preDisk
    /\ store.files = pre

\* commitFileAsync({path: "/e/n", contents}) with no state: /e/n is neither
\* created on disk nor added to the store.
C8_Witness ==
  /\ call.op = "commit"
  /\ call.file.state = NoState
  /\ ~call.held
  /\ CommitPath = eNew
  /\ eNew \notin DOMAIN disk
  /\ eNew \notin DOMAIN store.files

\* C9: commitFileAsync of a modified record (where the write can succeed)
\* creates the missing parent directories, writes the contents at the path and
\* returns true; the record is then in the store with its state reset, added
\* by the commit only if the store did not hold it; and committing that store
\* record again returns false with no disk write and no store change.
C9_ModifiedCommitted ==
  /\ (call.op = "commit" /\ call.file.state = STATE_MODIFIED
      /\ ~WriteFails(preDisk, CommitPath)) =>
       /\ call.status = "ok"
       /\ call.ret
       /\ IsDiskFile(disk, CommitPath)
       /\ disk[CommitPath].contents = call.file.contents
       /\ \A a \in Ancestors(CommitPath) : IsDiskDir(disk, a)
       /\ \A q \in DOMAIN preDisk : q # CommitPath => (q \in DOMAIN disk /\ disk[q] = preDisk[q])
       /\ CommitPath \in DOMAIN store.files
       /\ store.files[CommitPath].state = NoState
       /\ store.files[CommitPath].contents = call.file.contents
       /\ call.added = ~call.held
  /\ (call.op = "commit" /\ call.held /\ prev.op = "commit"
      /\ prev.paths = call.paths /\ prev.file.state = STATE_MODIFIED
      /\ prev.status = "ok") =>
       /\ ~call.ret
       /\ ~call.added
       /\ disk = preDisk
       /\ store.files = pre

\* commitFileAsync(newFile) for /e/n, which the store did not hold and whose
\* directory /e was missing, followed by commitFileAsync(store.get("/e/n")).
C9_Witness ==
  /\ call.op = "commit" /\ prev.op = "commit"
  /\ CommitPath = eNew /\ prev.paths = call.paths
  /\ prev.file.state = STATE_MODIFIED /\ ~prev.held /\ prev.added /\ prev.ret
  /\ call.held /\ ~call.ret
  /\ IsDiskDir(disk, eDir)
  /\ IsDiskFile(disk, eNew) /\ disk[eNew].contents = <<"n">>

\* C10: commitFileAsync of a record with state = deleted removes the file at
\* its path from disk when it is there, and succeeds, creating and changing
\* nothing, when it is not.
C10_DeletedRemoved ==
  (call.op = "commit" /\ call.file.state = STATE_DELETED) =>
    /\ call.status = "ok"
    /\ call.ret
    /\ CommitPath \notin DOMAIN disk
    /\ \A q \in DOMAIN disk : q \in DOMAIN preDisk /\ disk[q] = preDisk[q]
    /\ \A q \in DOMAIN preDisk : q \notin DOMAIN disk => IsPrefix(CommitPath, q)
    /\ CommitPath \notin DOMAIN preDisk => disk = preDisk

\* delete("/d/a") and then commitFileAsync(store.get("/d/a")): the file was on
\* disk and is gone.
C10_Witness ==
  /\ call.op = "commit"
  /\ call.file.state = STATE_DELETED
  /\ CommitPath = dA
  /\ dA \in DOMAIN preDisk
  /\ dA \notin DOMAIN disk
  /\ dB \in DOMAIN disk

\* The latest operation committed a modified record that carries a mode, and
\* the write succeeded.
ModeCommitted(c, dk) ==
  /\ c.op = "commit"
  /\ c.file.state = STATE_MODIFIED
  /\ HasMode(c.file)
  /\ ~WriteFails(dk, c.paths[1])

\* C11: after the commit of a modified record with stat.mode = m the
\* permission bits of the file on disk are m (also when the file had another
\* mode before), and a commit that follows a commit of the same path with the
\* same mode changes no mode.
C11_ModeApplied ==
  ModeCommitted(call, preDisk) =>
    /\ call.status = "ok"
    /\ PermBits(diskMode[CommitPath]) = call.file.mode
    /\ diskMode[CommitPath] = S_IFREG + call.file.mode
    /\ (prev.op = "commit" /\ prev.paths = call.paths /\ prev.status = "ok"
        /\ prev.file.state = STATE_MODIFIED /\ HasMode(prev.file)
        /\ prev.file.mode = call.file.mode) => ~call.chmod

\* Two commits of /e/n with mode 0o600: the first one changed the mode of the
\* new file, the second one did not.
C11_Witness ==
  /\ ModeCommitted(call, preDisk) /\ ModeCommitted(prev, Disk0)
  /\ CommitPath = eNew /\ prev.paths = call.paths
  /\ prev.file.mode = Mode600 /\ call.file.mode = Mode600
  /\ prev.chmod /\ ~call.chmod
  /\ PermBits(diskMode[eNew]) = Mode600

\* The record's path is a directory on disk, or its parent directory a file.
PathBlocked(dk, p) == IsDiskDir(dk, p) \/ IsDiskFile(dk, Dirname(p))

\* C12: commitFileAsync of a modified record fails when a directory is at the
\* record's path and when the parent directory of the path is a regular file;
\* the disk is left as it was and the record stays modified.
C12_CommitFails ==
  (call.op = "commit" /\ call.file.state = STATE_MODIFIED
   /\ PathBlocked(preDisk, CommitPath)) =>
    /\ call.status = "error"
    /\ ~call.ret
    /\ ~call.chmod
    /\ disk = preDisk
    /\ CommitPath \in DOMAIN store.files
    /\ store.files[CommitPath].state = STATE_MODIFIED

\* A commit of a record at the directory /d and then one of /d/a/n, below
\* the file /d/a: both failed.
C12_Witness ==
  /\ call.op = "commit" /\ prev.op = "commit"
  /\ prev.paths = <<dDir>> /\ IsDiskDir(preDisk, dDir) /\ prev.status = "error"
  /\ call.paths = <<dAn>> /\ IsDiskFile(preDisk, dA) /\ call.status = "error"
  /\ IsDiskDir(disk, dDir) /\ IsDiskFile(disk, dA) /\ dAn \notin DOMAIN disk

\* C13: delete never fails because nothing matched: a delete whose paths
\* (literal or pattern, one or several) match no store record and no disk file
\* returns normally and leaves every store record, and the disk, as they were.
C13_DeleteNoMatchOk ==
  (call.op = "delete" /\ ZeroMatches) =>
    /\ call.status = "ok"
    /\ call.error = "none"
    /\ store.files = pre
    /\ disk = preDisk

\* delete(["/x", "/x/*"]) on a store that holds records: nothing is named so.
C13_Witness ==
  /\ call.op = "delete"
  /\ call.paths = <<xNone, xAll>>
  /\ ZeroMatches
  /\ call.status = "ok"
  /\ pre # <<>>
  /\ store.files = pre

HasPattern == \E i \in 1..Len(call.paths) : IsDynamicPattern(call.paths[i])

\* C14, as claimed: the delete of a pattern that matches no file fails unless
\* ignoreNoMatch is set, and is then a no-op.
C14_DeleteNoMatchFails ==
  (call.op = "delete" /\ HasPattern /\ ZeroMatches) =>
    IF call.opts.ignoreNoMatch
      THEN call.status = "ok" /\ store.files = pre
      ELSE call.status = "error"

\* C14, amended: the delete of a pattern that matches no file, on disk or in
\* the store, does not fail and changes nothing, whether or not ignoreNoMatch
\* is given.
C14_DeleteNoMatchSilent ==
  (call.op = "delete" /\ HasPattern /\ ZeroMatches) =>
    /\ call.status = "ok"
    /\ \A p \in DOMAIN store.files : p \in DOMAIN pre /\ store.files[p] = pre[p]
    /\ \A p \in DOMAIN pre : p \in DOMAIN store.files

\* delete("/x/*") without ignoreNoMatch on a store that holds records.
C14_Witness ==
  /\ call.op = "delete"
  /\ call.paths = <<xAll>>
  /\ ~call.opts.ignoreNoMatch
  /\ ZeroMatches
  /\ call.status = "ok"
  /\ pre # <<>>

ReadPath == call.paths[1]

\* The path read holds nothing to read: the store held it as deleted, or it
\* was neither in the store nor a file on disk.
NothingToRead ==
  IF ReadPath \in DOMAIN pre THEN pre[ReadPath].state = STATE_DELETED
  ELSE ~IsDiskFile(preDisk, ReadPath)

\* C15: read(p) of a deleted file, or of a path that never existed, throws
\* without a defaults option and returns the defaults with one (also '' and
\* null), never the contents the file had; after the path is written again
\* read returns what was written.
C15_ReadAfterDelete ==
  /\ (call.op = "read" /\ NothingToRead) =>
       IF call.hasDefaults
         THEN call.status = "ok" /\ call.value = call.contents
         ELSE call.status = "error"
  /\ (call.op = "read" /\ prev.op = "write" /\ prev.paths = call.paths) =>
       call.status = "ok" /\ call.value = prev.contents

\* delete("/d/a") and then read("/d/a", {defaults: ''}): the file is still on
\* disk with its contents, and read returns ''.
C15_Witness ==
  /\ call.op = "read" /\ prev.op = "delete"
  /\ prev.paths = <<dA>> /\ ReadPath = dA
  /\ IsDiskFile(disk, dA) /\ disk[dA].contents = <<"A">>
  /\ call.hasDefaults /\ call.contents = <<>>
  /\ call.status = "ok" /\ call.value = <<>>

\* The files globOptions.ignore of the latest call covers, on disk or in the
\* store.
Ignored ==
  {F \in DOMAIN preDisk \cup DOMAIN pre : Multimatch(F, call.opts.ignore)}

\* The files the sources of the latest call name: the disk files and the store
\* records with contents that an input names or a globified input matches.
Named ==
  LET patterns == Globify(preDisk, Range(call.paths))
  IN  {F \in DOMAIN preDisk \cup DOMAIN pre :
         /\ IsDiskFile(preDisk, F) \/ (F \in DOMAIN pre /\ pre[F].contents # Null)
         /\ F \in Range(call.paths) \/ Multimatch(F, patterns)}

\* C16: a source excluded by globOptions.ignore is never copied, be it on
\* disk, only in the store, or a literal element of `from`: it is not among
\* the files the call copies and no record is written at its destination; the
\* named files that are not ignored are copied.
C16_IgnoredNeverCopied ==
  (call.op = "copy" /\ call.opts.ignore # {} /\ call.status = "ok") =>
    /\ \A F \in Ignored :
         F \notin Range(Sources) /\ ~Written(DestOf(F))
    /\ \A F \in Named \ Ignored : F \in Range(Sources)

\* `from` is one string, no pattern, naming a file on disk or a store record
\* with contents.
SingleLiteralFile ==
  /\ ~call.isArray
  /\ ~IsDynamicPattern(call.paths[1])
  /\ ResolvesToFile(call.paths[1])

\* resolve(to), path-templated when a context is given
ToPath == RenderFilepath(call.to, call.opts.context)

\* The destination of source F below `to` taken as a directory, with
\* processDestinationPath applied.
DirDest(F) ==
  RenderFilepath(
    ProcessDestinationPath(call.opts,
      Join(call.to, Relative(GetCommonPath(preDisk, call.paths), F))),
    call.opts.context)

\* Every record written and every copy suspended has a destination below `to`
\* taken as a directory.
PlacedUnderTo ==
  /\ \A p \in DOMAIN store.files :
       Written(p) => (Below(ToPath, p) /\ \E F \in Range(Sources) : p = DirDest(F))
  /\ \A i \in 1..Len(tasks) :
       Below(ToPath, tasks[i].to) /\ tasks[i].to = DirDest(tasks[i].from)

\* No record but the one at resolve(to) is written, and no copy is suspended
\* for another destination.
OnlyToWritten ==
  /\ \A p \in DOMAIN store.files : Written(p) => p = ToPath
  /\ \A i \in 1..Len(tasks) : tasks[i].to = ToPath

OneRecordAtTo ==
  /\ call.started = 1
  /\ ToPath \in DOMAIN store.files
  /\ store.files[ToPath].state = STATE_MODIFIED
  /\ store.files[ToPath].contents # Null

SourceWithoutContents ==
  \E F \in Range(Sources) :
    IF F \in DOMAIN pre THEN pre[F].contents = Null ELSE ~IsDiskFile(preDisk, F)

\* C18: on a store without existsInMemory a copy with append fails with the
\* not-compatible error (unless a source has no contents, which fails first)
\* and neither creates nor overwrites a record, in the sync path and in the
\* processFile path.
C18_AppendIncompatible ==
  (call.op = "copy" /\ store.legacy /\ call.opts.append) =>
    /\ NothingWritten
    /\ (call.started > 0 /\ call.status # "running") =>
         /\ call.status = "error"
         /\ call.error \in {"incompatible", "copy"}
         /\ call.error = "copy" => SourceWithoutContents
    /\ (call.started > 0 /\ tasks = <<>>) => call.status = "error"

\* copyAsync("/d/*", "/e", {append, processFile}) on a legacy store that holds
\* records: both per-file copies were started and have thrown, and no record
\* is written.
C18_Witness ==
  /\ call.op = "copy" /\ store.legacy
  /\ call.opts.append /\ call.opts.processFile
  /\ call.paths = <<dAll>> /\ call.to = eDir
  /\ call.started = 2 /\ tasks = <<>>
  /\ call.status = "error" /\ call.error = "incompatible"
  /\ pre # <<>> /\ NothingWritten

\* C19: in every reachable state each path has exactly one record in the
\* store (its path is once in the store's iteration order, and every path
\* iterated has its record), and every record with state = deleted has null
\* contents.
C19_StoreInvariant ==
  /\ Range(store.order) = DOMAIN store.files
  /\ \A i, j \in 1..Len(store.order) : store.order[i] = store.order[j] => i = j
  /\ \A p \in DOMAIN store.files :
       store.files[p].state = STATE_DELETED => store.files[p].contents = Null

\* After write("/d/v") and delete("/d/*") the store holds one record for each
\* of /d/a, /d/b and /d/v, all tombstones.
C19_Witness ==
  /\ call.op = "delete" /\ prev.op = "write"
  /\ Len(store.order) = 3
  /\ \A p \in {dA, dB, dV} : Tombstoned(p)

\* C20: within one copyAsync call the destinations computed for the resolved
\* disk and store files are pairwise distinct, so no two of its per-file
\* copies, suspended or not, target the same destination path.
C20_DistinctDestinations ==
  call.op = "copy" =>
    /\ \A i, j \in 1..Len(Sources) :
         i # j => DestOf(Sources[i]) # DestOf(Sources[j])
    /\ \A i, j \in 1..Len(tasks) : i # j => tasks[i].to # tasks[j].to

\* The store before the latest operation.
PreStore == [files |-> pre, order |-> <<>>, legacy |-> store.legacy]

\* The record at its destination after source f is copied alone, by the
\* latest copyAsync call's options, over the store as it was before the call.
CopiedAlone(f) ==
  LET D == DestOf(f)
      t == Task(f, D, ProcessFile(preDisk, f), call.opts)
      r == AfterProcess(PreStore, preDisk, t)
      s == IF call.opts.processFile /\ f \in Range(call.diskFiles)
             THEN IF r.done THEN r.st ELSE AfterStat(r.st, t)
             ELSE CopySingle(PreStore, preDisk, f, D, call.opts).st
  IN  s.files[D]

DistinctDestinations ==
  \A i, j \in 1..Len(Sources) : i # j => DestOf(Sources[i]) # DestOf(Sources[j])

\* C21: after a finished copyAsync of several files whose destinations are
\* pairwise distinct, in whatever order its per-file copies resumed, every
\* destination holds the record that copying its own source alone would give:
\* its contents, state and history depend on no other file of the call.
C21_NoCrossFileInterference ==
  (call.op = "copy" /\ call.status = "ok" /\ tasks = <<>>
   /\ Len(Sources) > 1 /\ DistinctDestinations) =>
    \A i \in 1..Len(Sources) :
      LET D == DestOf(Sources[i])
      IN  /\ D \in DOMAIN store.files
          /\ store.files[D] = CopiedAlone(Sources[i])

\* The destination of source f in a directory-mode copy: the path of f
\* relative to the common base directory of the sources, joined onto `to`,
\* passed through processDestinationPath and then rendered with the context.
DirectoryDestination(f) ==
  RenderFilepath(
    ProcessDestinationPath(call.opts,
      Join(call.to, Relative(GetCommonPath(preDisk, call.paths), f))),
    call.opts.context)

TwoLiteralFiles ==
  /\ call.isArray /\ Len(call.paths) = 2
  /\ \A i \in 1..2 : ~IsDynamicPattern(call.paths[i])
  /\ Dirname(call.paths[1]) = Dirname(call.paths[2])
  /\ call.paths[1] # call.paths[2]
  /\ ~call.opts.processDestinationPath /\ ~call.opts.context

\* C22: in a directory-mode copyAsync every copy, suspended or finished, has
\* as destination the source's path relative to the common base directory
\* joined onto `to`, passed through processDestinationPath and only then
\* rendered with the context: the suspended copies target these paths, every
\* record the call writes is at one of them, and a finished call holds a
\* modified record at each; for an array of two literal files of one
\* directory each file is at to/<basename> with its own contents.
C22_DirectoryDestination ==
  (call.op = "copy" /\ call.asDir) =>
    /\ \A i \in 1..Len(tasks) : tasks[i].to = DirectoryDestination(tasks[i].from)
    /\ \A p \in DOMAIN store.files :
         Written(p) => \E i \in 1..Len(Sources) : p = DirectoryDestination(Sources[i])
    /\ (call.status = "ok" /\ tasks = <<>>) =>
         \A i \in 1..Len(Sources) :
           LET D == DirectoryDestination(Sources[i])
           IN  D \in DOMAIN store.files /\ store.files[D].state = STATE_MODIFIED
    /\ (call.status = "ok" /\ tasks = <<>> /\ TwoLiteralFiles) =>
         \A i \in 1..Len(Sources) :
           LET f == Sources[i]
               D == Join(call.to, <<f[Len(f)]>>)
           IN  /\ D \in DOMAIN store.files
               /\ store.files[D].contents =
                    IF call.opts.append /\ D \in DOMAIN pre /\ pre[D].contents # Null
                      THEN pre[D].contents \o NewContents(f)
                      ELSE NewContents(f)

\* write("/d/<%= name %>"); copyAsync("/d/*", "/e", {processDestinationPath},
\* context): the file is at /e/r, its name rendered after the hook ran, next
\* to /e/a.
C22_Witness ==
  /\ call.op = "copy" /\ call.asDir /\ prev.op = "write"
  /\ call.paths = <<dAll>> /\ call.to = eDir
  /\ call.opts.processDestinationPath /\ call.opts.context
  /\ call.status = "ok" /\ tasks = <<>>
  /\ dT \in Range(Sources)
  /\ <<"e", "r">> \in DOMAIN store.files
  /\ store.files[<<"e", "r">>].contents = <<"w">>
  /\ <<"e", "a">> \in DOMAIN store.files

\* Suspended copy i finishes in this step.
Finishes(i) == i \in 1..Len(tasks) /\ tasks' = RemoveAt(tasks, i)

\* C23: a copy with processFile and append never overwrites a destination
\* record that the store holds when the copy writes: whenever a suspended
\* copy with append finishes while the store holds its destination with
\* contents, the destination then holds those contents followed by the new
\* ones, also when another operation created it during the suspension.
C23_AppendNeverOverwrites ==
  [][\A i \in 1..Len(tasks) :
       (/\ Finishes(i)
        /\ tasks[i].append
        /\ ExistsInMemoryOpt(store, tasks[i].to)
        /\ store.files[tasks[i].to].contents # Null) =>
         store'.files[tasks[i].to].contents =
           store.files[tasks[i].to].contents \o tasks[i].contents]_vars

\* The store held a tombstone for f before the latest operation.
WasTombstone(f) == f \in DOMAIN pre /\ IsTombstone(pre[f])

\* C24: a tombstone is never selected as a copy source: no disk file and no
\* store file that a copyAsync call resolved is a path whose record was a
\* tombstone when the call was made, and no suspended copy has one as its
\* source.
C24_TombstoneNeverCopied ==
  call.op = "copy" =>
    /\ \A i \in 1..Len(Sources) : ~WasTombstone(Sources[i])
    /\ \A i \in 1..Len(tasks) : ~WasTombstone(tasks[i].from)

\* A target of the latest delete call: an input path the store held, a disk
\* file that matches the expanded patterns, or a path that matches them.
DeleteTarget(p) ==
  LET patterns == ExpandedPatterns(pre, preDisk, call.paths)
  IN  \/ p \in Range(call.paths) /\ p \in DOMAIN pre
      \/ /\ IsDiskFile(preDisk, p)
         /\ Multimatch(p, patterns)
         /\ ~Multimatch(p, call.opts.ignore)
      \/ p \in DOMAIN pre /\ Multimatch(p, patterns)

\* C25: delete(paths) changes only the records of its targets: every record
\* the store held whose path is no input path, no disk match and no store
\* match of the expanded patterns keeps its contents and state, every record
\* the call adds is a disk match, and an input path that is a tombstone
\* contributes no pattern to the expansion.
C25_DeleteFrame ==
  call.op = "delete" =>
    /\ \A p \in DOMAIN pre :
         ~DeleteTarget(p) =>
           /\ p \in DOMAIN store.files
           /\ store.files[p].contents = pre[p].contents
           /\ store.files[p].state = pre[p].state
    /\ \A p \in DOMAIN store.files : p \notin DOMAIN pre => DeleteTarget(p)

\* write("/d"); delete("/d"); delete("/d"): the second delete names a
\* tombstone at the path of a directory and touches no file of the directory.
C25_Witness ==
  /\ call.op = "delete" /\ call.paths = <<dDir>>
  /\ prev.op = "delete" /\ prev.paths = <<dDir>>
  /\ dDir \in DOMAIN pre /\ IsTombstone(pre[dDir])
  /\ IsDiskFile(preDisk, dA) /\ dA \notin DOMAIN store.files
  /\ store.files = pre

====
